---- MODULE Spec2Model ----
(***************************************************************************)
(* openweathermap-exporter: the start-up sequence, the configuration       *)
(* resolution, the signal handling and the poll loop of the two variants   *)
(* of the exporter, exporter/client.py and src/client.py.                  *)
(***************************************************************************)
EXTENDS Integers, Sequences, FiniteSets, TLC

VARIABLES
    variant,     \* which client.py runs: "exporter" or "src"
    env,         \* the process environment: variable name -> value or Unset
    file,        \* the configuration file: kind, scalar keys, locations
    verbosity,   \* args.verbosity, the count of -v flags
    weather,     \* the descriptions the provider's responses hold during the run
    pc,          \* position of the main thread
    running,     \* the global running / RUNNING flag
    handlers,    \* TRUE once signal.signal registered shutdown for SIGTERM and SIGINT
    config,      \* what parse_config returned (kind "unparsed" before the call)
    cfg,         \* the resolved configuration (interval, loglevel, ...)
    resolved,    \* TRUE once the resolution lines have all run
    effLevel,    \* the level given to logger.setLevel, NoLevel before that
    served,      \* TRUE once start_http_server was called
    exit,        \* "alive", or how the process ended
    idx,         \* index of the location the for loop is at
    pending,     \* exception travelling through the finally clause, or "none"
    gauges,      \* location index -> gauge index -> "old", "raw" or "conv" (see Aged)
    calls,       \* location index -> provider calls made in the current cycle
    lookup,      \* location index -> how the provider was asked in the current cycle
    updates,     \* location index -> times the gauge writes were begun in the current cycle
    conditions,  \* location index -> the condition labels of owm_weather_condition
                 \* holding 1, the label of Usual left out
    outcome,     \* location index -> what became of the location in the current cycle
    cycles,      \* 0, 1 or 2: no cycle started, first cycle, a later cycle
    forEnd,      \* how the for statement of the current cycle ended
    sleeps,      \* sleep(interval) calls made since the current cycle started
    slept,       \* the duration given to the last sleep call
    signals,     \* 0 or 1, changed by every signal delivered
    entered,     \* TRUE once the start-up has reached the while statement
    stoppedAt    \* idx when the flag was cleared in the middle of a cycle, else 0

vars == << variant, env, file, verbosity, weather, pc, running, handlers, config, cfg,
           resolved, effLevel, served, exit, idx, pending, gauges, calls,
           lookup, updates, conditions, outcome, cycles, forEnd, sleeps, slept, signals, entered, stoppedAt >>

inputVars == << variant, env, file, verbosity, weather >>
startVars == << handlers, config, cfg, resolved, effLevel, served, entered >>
loopVars == << idx, pending, gauges, calls, lookup, updates, conditions, outcome, cycles, forEnd,
              sleeps, slept >>
sigVars == << signals, stoppedAt >>

(***************************************************************************)
(* Bounds of the model.                                                    *)
(***************************************************************************)
MaxLocs == 2          \* longest locations list
MaxVerbosity == 4     \* largest count of -v flags

(***************************************************************************)
(* Python values.  A value is an int, a str (a sequence of characters),    *)
(* None, or Unset (no such environment variable / no such key).            *)
(***************************************************************************)
PInt(n) == [t |-> "int", i |-> n, s |-> << >>]
PStr(s) == [t |-> "str", i |-> 0, s |-> s]
PNone == [t |-> "none", i |-> 0, s |-> << >>]
Unset == [t |-> "unset", i |-> 0, s |-> << >>]

\* bool(v): the truth value Python gives a value in `if not v`.
Truthy(v) ==
    CASE v.t = "int" -> v.i # 0
      [] v.t = "str" -> Len(v.s) > 0
      [] OTHER -> FALSE

Digits == <<"0", "1", "2", "3", "4", "5", "6", "7", "8", "9">>
IsDigit(c) == \E d \in 1..10 : Digits[d] = c
DigitVal(c) == (CHOOSE d \in 1..10 : Digits[d] = c) - 1

RECURSIVE DigitsVal(_)
DigitsVal(s) ==
    IF s = << >> THEN 0
    ELSE 10 * DigitsVal(SubSeq(s, 1, Len(s) - 1)) + DigitVal(s[Len(s)])

AllDigits(s) == Len(s) > 0 /\ \A k \in 1..Len(s) : IsDigit(s[k])

\* int(v) of Python: an int is itself, a str is parsed as an optional sign
\* and decimal digits (ValueError otherwise), None is a TypeError.
PyInt(v) ==
    CASE v.t = "int" -> [err |-> "none", v |-> v.i]
      [] v.t = "str" ->
            IF AllDigits(v.s) THEN [err |-> "none", v |-> DigitsVal(v.s)]
            ELSE IF Len(v.s) > 1 /\ v.s[1] = "-" /\ AllDigits(Tail(v.s))
                 THEN [err |-> "none", v |-> 0 - DigitsVal(Tail(v.s))]
            ELSE IF Len(v.s) > 1 /\ v.s[1] = "+" /\ AllDigits(Tail(v.s))
                 THEN [err |-> "none", v |-> DigitsVal(Tail(v.s))]
            ELSE [err |-> "ValueError", v |-> 0]
      [] OTHER -> [err |-> "TypeError", v |-> 0]


(***************************************************************************)
(* Strings the code names.                                                 *)
(***************************************************************************)
WARNING == <<"W", "A", "R", "N", "I", "N", "G">>
INFO == <<"I", "N", "F", "O">>
DEBUG == <<"D", "E", "B", "U", "G">>
NOTSET == <<"N", "O", "T", "S", "E", "T">>
ERROR == <<"E", "R", "R", "O", "R">>
CRITICAL == <<"C", "R", "I", "T", "I", "C", "A", "L">>

\* logging's level names: Logger.setLevel raises ValueError for another str
\* and TypeError for a value that is neither a str nor an int.
LevelNames == {CRITICAL, ERROR, WARNING, INFO, DEBUG, NOTSET}
SetLevelErr(v) ==
    CASE v.t = "str" -> IF v.s \in LevelNames THEN "none" ELSE "ValueError"
      [] v.t = "int" -> "none"
      [] OTHER -> "TypeError"

ScalarKeys == {"interval", "loglevel", "listen_port", "api_key", "units"}
EnvNames == {"TERM", "INTERVAL", "LOGLEVEL", "LISTEN_PORT", "API_KEY", "UNITS"}
NoKeys == [k \in ScalarKeys |-> Unset]

\* A location entry of the file: a mapping or not, and which of its keys
\* hold a value (a key that is absent or null reads as None).
Entry(m, n, la, lo) == [map |-> m, name |-> n, lat |-> la, lon |-> lo]

Unparsed == [kind |-> "unparsed", keys |-> NoKeys, hasLocs |-> FALSE, locs |-> << >>]
\* (mutation of NoneConfig: an empty file read as the empty mapping)
NoneConfigAsDict == [kind |-> "dict", keys |-> NoKeys, hasLocs |-> FALSE, locs |-> << >>]

NoneConfig == [kind |-> "none", keys |-> NoKeys, hasLocs |-> FALSE, locs |-> << >>]
EmptyDict == [kind |-> "dict", keys |-> NoKeys, hasLocs |-> FALSE, locs |-> << >>]
FileDict == [kind |-> "dict", keys |-> file.keys, hasLocs |-> file.hasLocs, locs |-> file.locs]

NoCfg == [interval |-> 0, loglevel |-> Unset, listen_port |-> 0, api_key |-> Unset,
          units |-> Unset, locations |-> << >>]

\* os.getenv(name, default)
GetEnv(name, default) == IF env[name] = Unset THEN default ELSE env[name]

\* config.get(key, default) on the mapping parse_config returned
ConfigGet(key, default) == IF config.keys[key] = Unset THEN default ELSE config.keys[key]

\* (mutation of ConfigLocations: a default location when the key is missing)
ConfigLocationsDefault ==
    IF config.hasLocs THEN config.locs ELSE <<Entry(TRUE, TRUE, FALSE, FALSE)>>

\* config.get("locations", [])
ConfigLocations == IF config.hasLocs THEN config.locs ELSE << >>

(***************************************************************************)
(* Leaving the process.  An exception that reaches the outer try of        *)
(* __main__ is printed and raised again (KeyboardInterrupt is only         *)
(* printed) and the finally clause clears the flag.                        *)
(***************************************************************************)
Die(e) ==
    /\ pc' = "exited"
    /\ exit' = e
    /\ running' = FALSE

(***************************************************************************)
(* The order of the start-up steps in each variant.                        *)
(***************************************************************************)
ExporterOrder == <<"parse", "register", "resolve", "check_key", "logging",
                   "serve", "check_locs", "while">>
SrcOrder == <<"parse", "register", "resolve", "check_key", "check_locs",
              "logging", "serve", "while">>
StartupOrder == IF variant = "exporter" THEN ExporterOrder ELSE SrcOrder
After(p) == StartupOrder[(CHOOSE k \in 1..Len(StartupOrder) : StartupOrder[k] = p) + 1]

\* parse_config(args.config_file)
ParseConfig ==
    /\ pc = "parse"
    /\ IF variant = "exporter"
       THEN CASE file.kind = "absent" -> Die("FileNotFoundError") /\ UNCHANGED config
              [] file.kind = "empty" -> Die("ValueError") /\ UNCHANGED config
              [] file.kind = "malformed" -> Die("YAMLError") /\ UNCHANGED config
              [] OTHER -> /\ config' = FileDict
                          /\ pc' = After("parse")
                          /\ UNCHANGED << exit, running >>
       ELSE CASE file.kind = "absent" -> /\ config' = EmptyDict
                                         /\ pc' = After("parse")
                                         /\ UNCHANGED << exit, running >>
              [] file.kind = "empty" -> /\ config' = NoneConfig
                                        /\ pc' = After("parse")
                                        /\ UNCHANGED << exit, running >>
              [] file.kind = "malformed" -> /\ pc' = "exited"
                                            /\ exit' = "SystemExit"
                                            /\ UNCHANGED << config, running >>
              [] OTHER -> /\ config' = FileDict
                          /\ pc' = After("parse")
                          /\ UNCHANGED << exit, running >>
    /\ UNCHANGED << inputVars, loopVars, handlers, cfg, resolved, effLevel, served, sigVars >>
    /\ entered' = (pc' = "while")

\* if getenv("TERM", None): signal.signal(SIGTERM, shutdown); signal.signal(SIGINT, shutdown)
RegisterHandlers ==
    /\ pc = "register"
    /\ handlers' = Truthy(GetEnv("TERM", PNone))
    /\ pc' = After("register")
    /\ UNCHANGED << inputVars, loopVars, running, config, cfg, resolved, effLevel,
                    served, exit, sigVars >>
    /\ entered' = (pc' = "while")

(***************************************************************************)
(* Configuration with defaults and environment overrides.                  *)
(***************************************************************************)
\* (mutation of Lookup: the file's key wins over the environment variable)
LookupFileFirst(name, key, default) ==
    IF config.keys[key] # Unset THEN config.keys[key] ELSE GetEnv(name, default)

\* getenv(NAME, config.get(key, default)): the form of every scalar line
Lookup(name, key, default) == GetEnv(name, ConfigGet(key, default))

\* the defaults are ints in exporter/client.py and strings in src/client.py
IntervalDefault == IF variant = "exporter" THEN PInt(600) ELSE PStr(<<"6", "0", "0">>)
PortDefault == IF variant = "exporter" THEN PInt(9126) ELSE PStr(<<"9", "1", "2", "6">>)

\* class VerbosityLevel(Enum) of src/client.py: VerbosityLevel(v).name,
\* a ValueError when v is no member's value
VerbosityLevel(v) ==
    CASE v = 0 -> [err |-> "none", v |-> PStr(NOTSET)]
      [] v = 1 -> [err |-> "none", v |-> PStr(WARNING)]
      [] v = 2 -> [err |-> "none", v |-> PStr(INFO)]
      [] v = 3 -> [err |-> "none", v |-> PStr(DEBUG)]
      [] OTHER -> [err |-> "ValueError", v |-> Unset]

\* the second argument of getenv("LOGLEVEL", ...), evaluated before getenv
\* is called
LogLevelDefault ==
    IF variant = "exporter" THEN [err |-> "none", v |-> ConfigGet("loglevel", PStr(INFO))]
    ELSE IF verbosity > 0 THEN VerbosityLevel(verbosity)
    ELSE [err |-> "none", v |-> ConfigGet("loglevel", PStr(INFO))]

ResolvedInterval == PyInt(Lookup("INTERVAL", "interval", IntervalDefault))
ResolvedLogLevel == GetEnv("LOGLEVEL", LogLevelDefault.v)
ResolvedPort == PyInt(Lookup("LISTEN_PORT", "listen_port", PortDefault))
ResolvedApiKey == Lookup("API_KEY", "api_key", PNone)
ResolvedUnits == Lookup("UNITS", "units", PStr(<<"C">>))

\* the first exception the resolution lines raise, in the order of the lines
ResolveErr ==
    CASE config.kind = "none" -> "AttributeError"
      [] ResolvedInterval.err # "none" -> ResolvedInterval.err
      [] LogLevelDefault.err # "none" -> LogLevelDefault.err
      [] ResolvedPort.err # "none" -> ResolvedPort.err
      [] OTHER -> "none"

ResolveConfig ==
    /\ pc = "resolve"
    /\ IF ResolveErr # "none"
       THEN Die(ResolveErr) /\ UNCHANGED << cfg, resolved >>
       ELSE /\ cfg' = [interval |-> ResolvedInterval.v,
                       loglevel |-> ResolvedLogLevel,
                       listen_port |-> ResolvedPort.v,
                       api_key |-> ResolvedApiKey,
                       units |-> ResolvedUnits,
                       locations |-> ConfigLocations]
            /\ resolved' = TRUE
            /\ pc' = After("resolve")
            /\ UNCHANGED << exit, running >>
    /\ UNCHANGED << inputVars, loopVars, handlers, config, effLevel, served, sigVars >>
    /\ entered' = (pc' = "while")

\* (mutation of LocationsOk: the locations list is not tested)
LocationsNotTested == TRUE

\* the tests `not api_key` and `not locations` of the start-up
KeyOk == Truthy(cfg.api_key)
LocationsOk == Len(cfg.locations) > 0

\* if not api_key: raise ValueError("API key is required")
CheckApiKey ==
    /\ pc = "check_key"
    /\ IF KeyOk
       THEN pc' = After("check_key") /\ UNCHANGED << exit, running >>
       ELSE Die("ValueError")
    /\ UNCHANGED << inputVars, loopVars, handlers, config, cfg, resolved, effLevel,
                    served, sigVars >>
    /\ entered' = (pc' = "while")

\* if not locations: raise ValueError("No locations specified in configuration")
CheckLocations ==
    /\ pc = "check_locs"
    /\ IF LocationsOk
       THEN pc' = After("check_locs") /\ UNCHANGED << exit, running >>
       ELSE Die("ValueError")
    /\ UNCHANGED << inputVars, loopVars, handlers, config, cfg, resolved, effLevel,
                    served, sigVars >>
    /\ entered' = (pc' = "while")

\* _switcher.get(_verbosity, _level) of set_logging_level
Switcher(v, level) ==
    CASE v = 1 -> PStr(WARNING)
      [] v = 2 -> PStr(INFO)
      [] v = 3 -> PStr(DEBUG)
      [] OTHER -> level

\* the level handed to Logger.setLevel: set_logging_level(args.verbosity,
\* loglevel) in exporter/client.py, configure_logging(logger, log_level) in
\* src/client.py
LevelToSet ==
    IF variant = "exporter"
    THEN IF verbosity > 0 THEN Switcher(verbosity, cfg.loglevel) ELSE cfg.loglevel
    ELSE cfg.loglevel

InitLogging ==
    /\ pc = "logging"
    /\ IF SetLevelErr(LevelToSet) = "none"
       THEN /\ effLevel' = LevelToSet
            /\ pc' = After("logging")
            /\ UNCHANGED << exit, running >>
       ELSE Die(SetLevelErr(LevelToSet)) /\ UNCHANGED effLevel
    /\ UNCHANGED << inputVars, loopVars, handlers, config, cfg, resolved, served, sigVars >>
    /\ entered' = (pc' = "while")

\* start_http_server(listen_port)
StartServer ==
    /\ pc = "serve"
    /\ served' = TRUE
    /\ pc' = After("serve")
    /\ UNCHANGED << inputVars, loopVars, running, handlers, config, cfg, resolved,
                    effLevel, exit, sigVars >>
    /\ entered' = (pc' = "while")

(***************************************************************************)
(* The poll loop.                                                          *)
(***************************************************************************)
\* the twelve gauges, in the order the code writes them: temperature,
\* temperature_min, temperature_max, temperature_feel, humidity, pressure,
\* wind_direction, wind_speed, cloudiness, sunrise_time, sunset_time,
\* weather_condition
NGauges == 12
Gauges == 1..NGauges
LocIdx == 1..MaxLocs
LoopPcs == {"while", "for", "finally", "sleep"}

\* the writes of the sink that raise in the model: the first, one in the
\* middle and the last
FailPoints == {1, 5, NGauges}

NLocs == Len(cfg.locations)

\* the gauges of location j that hold this cycle's reading
Fresh(j) == {g \in Gauges : gauges[j][g] # "old"}

\* A gauge is "old" when it holds what it held as the cycle began (an
\* earlier cycle's reading, or nothing); written in the cycle under way it
\* is "raw" when it holds a field of the response as the provider gave it
\* and "conv" when it holds what convert_temperature made of the field.
\* A new cycle begins: every gauge is "old".
Aged(gs) == [j \in LocIdx |-> [g \in Gauges |-> "old"]]

\* the gauges of temp, temp_min, temp_max and feels_like
TempGauges == 1..4

UnitsK == cfg.units = PStr(<<"K">>)

\* (mutation of Published: every field goes through convert_temperature)
PublishedAllConverted(g) == IF UnitsK THEN "raw" ELSE "conv"

\* what the update gives gauge g: if units != "K" the four temperatures are
\* converted, every other field is set as it is in the response
Published(g) == IF g \in TempGauges /\ ~UnitsK THEN "conv" ELSE "raw"

\* the descriptions a response's weather entry holds in the model; the
\* label sets are followed for every description but Usual
Usual == "clear sky"
Conditions == {Usual, "light rain", "snow"}

\* WEATHER_CONDITION.labels(city, country, description).set(1): the label
\* set of description c holds 1; the label sets written before are kept by
\* the registry as they are
Labelled(j, c) == [conditions EXCEPT ![j] = IF c = Usual THEN @ ELSE @ \cup {c}]

\* the names of the gauges, in the order of the writes
GaugeNames ==
    <<"temperature", "temperature_min", "temperature_max", "temperature_feel",
      "humidity", "pressure", "wind_direction", "wind_speed", "cloudiness",
      "sunrise_time", "sunset_time", "weather_condition">>

\* (mutation of Written: the gauges are written from the last to the first)
WrittenBackwards(j, k) ==
    [gauges EXCEPT ![j] =
        [g \in Gauges |-> IF g > NGauges - k THEN Published(g) ELSE gauges[j][g]]]

\* the first k gauges of location j written, the others left as they are
Written(j, k) ==
    [gauges EXCEPT ![j] = [g \in Gauges |-> IF g <= k THEN Published(g) ELSE gauges[j][g]]]

\* (mutation of LoopGuard: while True)
LoopGuardAlways == TRUE

\* while running:
LoopGuard == running

LoopTop ==
    /\ pc = "while"
    /\ IF LoopGuard
       THEN /\ pc' = "for"
            /\ idx' = 1
            /\ cycles' = IF cycles < 2 THEN cycles + 1 ELSE cycles
            /\ gauges' = Aged(gauges)
            /\ calls' = [j \in LocIdx |-> 0]
            /\ lookup' = [j \in LocIdx |-> "none"]
            /\ updates' = [j \in LocIdx |-> 0]
            /\ outcome' = [j \in LocIdx |-> "none"]
            /\ forEnd' = "running"
            /\ sleeps' = 0
            /\ UNCHANGED << running, exit, pending, slept, conditions >>
       ELSE /\ Die("ok")
            /\ UNCHANGED loopVars
    /\ UNCHANGED << inputVars, startVars, sigVars >>

\* the for statement has no location left: the try block ends
ForDone ==
    /\ pc = "for"
    /\ idx > NLocs
    /\ forEnd' = "normal"
    /\ pc' = "finally"
    /\ UNCHANGED << inputVars, startVars, running, exit, sigVars, idx, pending,
                    gauges, calls, lookup, updates, conditions, outcome, cycles, sleeps, slept >>

\* (mutation of OrchestrationError: the entry is passed over)
OrchestrationErrorSkips ==
    /\ pc = "for"
    /\ idx <= NLocs
    /\ ~cfg.locations[idx].map
    /\ outcome' = [outcome EXCEPT ![idx] = "orchestration_error"]
    /\ idx' = idx + 1
    /\ UNCHANGED << inputVars, startVars, running, exit, sigVars, pc, pending,
                    gauges, calls, lookup, updates, conditions, cycles, forEnd,
                    sleeps, slept >>

\* (mutation of OrchestrationError: the cycle has no except clause)
OrchestrationErrorFatal ==
    /\ pc = "for"
    /\ idx <= NLocs
    /\ ~cfg.locations[idx].map
    /\ outcome' = [outcome EXCEPT ![idx] = "orchestration_error"]
    /\ forEnd' = "error"
    /\ Die("AttributeError")
    /\ UNCHANGED << inputVars, startVars, sigVars, idx, pending,
                    gauges, calls, lookup, updates, conditions, cycles, sleeps, slept >>

\* location.get("name") on an entry that is no mapping raises AttributeError
\* outside the per-location try: except Exception of the cycle catches it
OrchestrationError ==
    /\ pc = "for"
    /\ idx <= NLocs
    /\ ~cfg.locations[idx].map
    /\ outcome' = [outcome EXCEPT ![idx] = "orchestration_error"]
    /\ forEnd' = "error"
    /\ pc' = "finally"
    /\ UNCHANGED << inputVars, startVars, running, exit, sigVars, idx, pending,
                    gauges, calls, lookup, updates, conditions, cycles, sleeps, slept >>

\* if not city: log.warning(...); continue
SkipNameless ==
    /\ pc = "for"
    /\ idx <= NLocs
    /\ cfg.locations[idx].map
    /\ ~cfg.locations[idx].name
    /\ outcome' = [outcome EXCEPT ![idx] = "skipped"]
    /\ idx' = idx + 1
    /\ UNCHANGED << inputVars, startVars, running, exit, sigVars, pc, pending,
                    gauges, calls, lookup, updates, conditions, cycles, forEnd, sleeps, slept >>

\* (mutation of Named: the name is not looked at)
NamedOrNot(j) == j <= NLocs /\ cfg.locations[j].map

Named(j) == j <= NLocs /\ cfg.locations[j].map /\ cfg.locations[j].name

\* what a provider call can give: an exception, or a response in which the
\* first missing temperature field is number `missing` in the order of the
\* writes (temp, temp_min, temp_max, feels_like; 0: none is missing)
Replies == {[raised |-> TRUE, missing |-> 0]} \cup
           {[raised |-> FALSE, missing |-> m] : m \in 0..2}

\* the number of gauges written for a response before an exception ends the
\* per-location try, and whether one does.  A missing temperature is None:
\* with units "K" it reaches Gauge.set, which raises on it; otherwise
\* convert_temperature is given None before any gauge is written.
\* failAt is the write the sink itself raises at (0: none).
WritesDone(reply, failAt) ==
    IF reply.raised THEN 0
    ELSE IF reply.missing > 0 THEN (IF UnitsK THEN reply.missing - 1 ELSE 0)
    ELSE IF failAt > 0 THEN failAt - 1
    ELSE NGauges

\* whether the pass reaches the first gauge write: the provider call and,
\* if units != "K", the conversions have raised nothing
WritesBegun(reply) == ~reply.raised /\ (reply.missing = 0 \/ UnitsK)

\* (mutation of LookupMode: one coordinate is enough)
LookupModeEither(loc) == IF loc.lat \/ loc.lon THEN "coords" ELSE "city"

\* if location.get("lat") is not None and location.get("lon") is not None:
\* get_weather(lat=..., lon=...), else get_weather(city=city)
LookupMode(loc) == IF loc.lat /\ loc.lon THEN "coords" ELSE "city"

OutcomeOf(reply, failAt) ==
    IF reply.raised THEN "provider_error"
    ELSE IF reply.missing > 0 THEN "response_error"
    ELSE IF failAt > 0 THEN "sink_error"
    ELSE "ok"

\* (mutation of AfterLocation: a failed location ends the for statement)
AfterLocationBreak(i) == IF outcome'[i] \in {"ok", "skipped"} THEN i + 1 ELSE NLocs + 1

\* (mutation of AfterLocation: a failed location is tried once more)
AfterLocationRetry(i) == IF outcome'[i] # "ok" /\ calls'[i] < 2 THEN i ELSE i + 1

\* where the for statement goes after the per-location try of location i
\* ended, with or without an exception: continue
AfterLocation(i) == i + 1

\* one pass of the per-location try: provider call, conversion, the writes
PollLocation ==
    /\ pc = "for"
    /\ Named(idx)
    /\ \E reply \in Replies, failAt \in {0} \cup FailPoints :
          /\ (reply.raised \/ reply.missing > 0 => failAt = 0)
          /\ calls' = [calls EXCEPT ![idx] = @ + 1]
          /\ lookup' = [lookup EXCEPT ![idx] = LookupMode(cfg.locations[idx])]
          /\ updates' = [updates EXCEPT ![idx] = IF WritesBegun(reply) THEN @ + 1 ELSE @]
          /\ gauges' = Written(idx, WritesDone(reply, failAt))
          /\ outcome' = [outcome EXCEPT ![idx] = OutcomeOf(reply, failAt)]
          /\ \E c \in weather :
                conditions' = IF WritesDone(reply, failAt) = NGauges
                              THEN Labelled(idx, c)
                              ELSE conditions
    /\ idx' = AfterLocation(idx)
    /\ UNCHANGED << inputVars, startVars, running, exit, sigVars, pc, pending,
                    cycles, forEnd, sleeps, slept >>

\* (mutation of SleepLength: back off by the number of failed locations)
SleepLengthBackoff ==
    cfg.interval * (1 + Cardinality({j \in LocIdx : outcome[j] \notin {"none", "ok", "skipped"}}))

\* the argument of sleep
SleepLength == cfg.interval

\* (mutation of FinallySleep: an exception on its way out is not held back)
FinallySleepUnlessRaising ==
    /\ pc = "finally"
    /\ IF pending # "none"
       THEN Die(pending) /\ UNCHANGED << sleeps, slept >>
       ELSE /\ sleeps' = sleeps + 1
            /\ slept' = SleepLength
            /\ IF SleepLength < 0
               THEN Die("ValueError")
               ELSE pc' = "sleep" /\ UNCHANGED << running, exit >>
    /\ UNCHANGED << inputVars, startVars, sigVars, idx, pending, gauges, calls,
                    lookup, updates, conditions, outcome, cycles, forEnd >>

\* finally: sleep(interval).  time.sleep raises ValueError for a negative
\* length, and that exception leaves the loop.
FinallySleep ==
    /\ pc = "finally"
    /\ sleeps' = sleeps + 1
    /\ slept' = SleepLength
    /\ IF SleepLength < 0
       THEN Die("ValueError")
       ELSE pc' = "sleep" /\ UNCHANGED << running, exit >>
    /\ UNCHANGED << inputVars, startVars, sigVars, idx, pending, gauges, calls,
                    lookup, updates, conditions, outcome, cycles, forEnd >>

\* sleep returns: an exception the finally clause held back goes on,
\* otherwise the while statement tests the flag again
SleepReturn ==
    /\ pc = "sleep"
    /\ IF pending # "none"
       THEN Die(pending)
       ELSE pc' = "while" /\ UNCHANGED << running, exit >>
    /\ UNCHANGED << inputVars, startVars, sigVars, loopVars >>

\* shutdown(_signal) called with its one parameter, as the tests call it
Shutdown ==
    /\ exit = "alive"
    /\ pc \in LoopPcs
    /\ running
    /\ running' = FALSE
    /\ stoppedAt' = IF pc = "for" THEN idx ELSE 0
    /\ UNCHANGED << inputVars, startVars, signals, loopVars, pc, exit >>

(***************************************************************************)
(* Signals.  Python runs a registered handler in the main thread, between  *)
(* two of its instructions, as handler(signum, frame); an exception the    *)
(* handler raises is raised at that point of the main thread.              *)
(***************************************************************************)
ShutdownParams == 1       \* def shutdown(_signal)
HandlerArgs == 2          \* the arguments a handler set by signal.signal is called with

\* the writes an interrupted per-location try has made in the model
InterruptPoints == {0, 4}

\* exception e raised at the point the main thread is at.  isExc: e is a
\* subclass of Exception (except Exception catches it).
RaiseInMain(e, isExc) ==
    \/ \* inside the per-location try of location idx
       /\ pc = "for"
       /\ Named(idx)
       /\ \E made \in BOOLEAN, k \in InterruptPoints :
             /\ (k > 0 => made)
             /\ calls' = [calls EXCEPT ![idx] = IF made THEN @ + 1 ELSE @]
             /\ lookup' = [lookup EXCEPT ![idx] =
                              IF made THEN LookupMode(cfg.locations[idx]) ELSE @]
             /\ updates' = [updates EXCEPT ![idx] = IF k > 0 THEN @ + 1 ELSE @]
             /\ gauges' = Written(idx, k)
       /\ outcome' = [outcome EXCEPT ![idx] = "interrupted"]
       /\ UNCHANGED conditions
       /\ IF isExc
          THEN /\ idx' = AfterLocation(idx)
               /\ UNCHANGED << pc, pending, forEnd >>
          ELSE /\ pending' = e
               /\ forEnd' = "interrupt"
               /\ pc' = "finally"
               /\ UNCHANGED idx
       /\ UNCHANGED << running, exit, cycles, sleeps, slept >>
    \/ \* in the for statement, outside the per-location try
       /\ pc = "for"
       /\ IF isExc
          THEN forEnd' = "interrupted_error" /\ UNCHANGED pending
          ELSE forEnd' = "interrupt" /\ pending' = e
       /\ pc' = "finally"
       /\ UNCHANGED << running, exit, idx, gauges, calls, lookup, updates, conditions, outcome,
                       cycles, sleeps, slept >>
    \/ \* at the while test, in the finally clause or in sleep: nothing catches it
       /\ pc \in {"while", "finally", "sleep"}
       /\ Die(e)
       /\ UNCHANGED loopVars

\* SIGTERM or SIGINT with shutdown registered: shutdown is called with
\* HandlerArgs arguments
SignalHandled ==
    /\ exit = "alive"
    /\ pc \in LoopPcs
    /\ handlers
    /\ signals' = 1 - signals
    /\ IF HandlerArgs = ShutdownParams
       THEN /\ running' = FALSE
            /\ stoppedAt' = IF pc = "for" THEN idx ELSE 0
            /\ UNCHANGED << loopVars, pc, exit >>
       ELSE RaiseInMain("TypeError", TRUE) /\ UNCHANGED stoppedAt
    /\ UNCHANGED << inputVars, startVars >>

\* SIGINT with no handler registered: Python's default handler raises
\* KeyboardInterrupt in the main thread
SigintDefault ==
    /\ exit = "alive"
    /\ pc \in LoopPcs
    /\ ~handlers
    /\ signals' = 1 - signals
    /\ RaiseInMain("KeyboardInterrupt", FALSE)
    /\ UNCHANGED << inputVars, startVars, stoppedAt >>

\* SIGTERM with no handler registered: the process is terminated
SigtermDefault ==
    /\ exit = "alive"
    /\ pc \in LoopPcs
    /\ ~handlers
    /\ signals' = 1 - signals
    /\ pc' = "exited"
    /\ exit' = "SIGTERM"
    /\ UNCHANGED << inputVars, startVars, loopVars, running, stoppedAt >>

(***************************************************************************)
(* Initial states: the process has run `running = True` and parse_args.    *)
(***************************************************************************)
Str(c) == PStr(<<c>>)
NamedLoc == Entry(TRUE, TRUE, FALSE, FALSE)
NamelessLoc == Entry(TRUE, FALSE, FALSE, FALSE)
NotMapping == Entry(FALSE, FALSE, FALSE, FALSE)

RECURSIVE SeqsUpTo(_, _)
SeqsUpTo(S, n) ==
    IF n = 0 THEN {<< >>}
    ELSE LET shorter == SeqsUpTo(S, n - 1)
         IN shorter \cup {Append(q, x) : q \in {r \in shorter : Len(r) = n - 1}, x \in S}

NoEnv == [n \in EnvNames |-> Unset]
MapFile(keys, hasLocs, locs) ==
    [kind |-> "map", keys |-> keys, hasLocs |-> hasLocs, locs |-> locs]
OtherFile(kind) == [kind |-> kind, keys |-> NoKeys, hasLocs |-> FALSE, locs |-> << >>]

InitRest ==
    /\ pc = "parse"
    /\ running = TRUE
    /\ handlers = FALSE
    /\ config = Unparsed
    /\ cfg = NoCfg
    /\ resolved = FALSE
    /\ effLevel = Unset
    /\ served = FALSE
    /\ exit = "alive"
    /\ idx = 1
    /\ pending = "none"
    /\ gauges = [j \in LocIdx |-> [g \in Gauges |-> "old"]]
    /\ calls = [j \in LocIdx |-> 0]
    /\ lookup = [j \in LocIdx |-> "none"]
    /\ updates = [j \in LocIdx |-> 0]
    /\ conditions = [j \in LocIdx |-> {}]
    /\ outcome = [j \in LocIdx |-> "none"]
    /\ cycles = 0
    /\ forEnd = "none"
    /\ sleeps = 0
    /\ slept = 0
    /\ signals = 0
    /\ stoppedAt = 0
    /\ entered = FALSE

\* the runs of the poll loop: a file with an API key, every locations list
\* up to MaxLocs entries, TERM set or not; locations with coordinates; and
\* with one list, the intervals and units the loop treats differently, a missing or empty API key, and
\* the files parse_config does not return a mapping for
LoopKeys(interval, units, key) ==
    [NoKeys EXCEPT !["interval"] = interval, !["units"] = units, !["api_key"] = key]
LocationLists == SeqsUpTo({NamedLoc, NamelessLoc, NotMapping}, MaxLocs)
\* named locations with lat, lon, both, and a nameless one with both
CoordinateLists ==
    {<<Entry(TRUE, TRUE, TRUE, FALSE)>>,
     <<Entry(TRUE, TRUE, FALSE, TRUE)>>,
     <<Entry(TRUE, TRUE, TRUE, TRUE)>>,
     <<Entry(TRUE, TRUE, TRUE, FALSE), Entry(TRUE, TRUE, TRUE, TRUE)>>,
     <<Entry(TRUE, FALSE, TRUE, TRUE), NamedLoc>>}
LoopInputs ==
    {[env |-> NoEnv, file |-> MapFile(LoopKeys(PInt(3), Unset, Str("f")), TRUE, l)] :
        l \in LocationLists}
    \cup {[env |-> NoEnv, file |-> MapFile(LoopKeys(i, Unset, Str("f")), TRUE, <<NamedLoc>>)] :
            i \in {PInt(0), PInt(-1)}}
    \cup {[env |-> [NoEnv EXCEPT !["INTERVAL"] = i],
           file |-> MapFile(LoopKeys(PInt(3), Unset, Str("f")), TRUE, <<NamedLoc>>)] :
            i \in {Str("0"), PStr(<<"-", "1">>)}}
    \cup {[env |-> NoEnv, file |-> MapFile(LoopKeys(PInt(3), Str("K"), Str("f")), TRUE, <<NamedLoc>>)]}
    \cup {[env |-> NoEnv, file |-> MapFile(LoopKeys(PInt(3), Unset, Str("f")), TRUE, l)] :
            l \in CoordinateLists}
    \cup {[env |-> NoEnv, file |-> MapFile(LoopKeys(PInt(3), Unset, Unset), TRUE, <<NamedLoc>>)]}
    \cup {[env |-> [NoEnv EXCEPT !["API_KEY"] = PStr(<< >>)],
           file |-> MapFile(LoopKeys(PInt(3), Unset, Str("f")), TRUE, <<NamedLoc>>)]}
    \cup {[env |-> NoEnv, file |-> MapFile(LoopKeys(PInt(3), Unset, Str("f")), FALSE, << >>)]}
    \cup {[env |-> NoEnv, file |-> OtherFile(k)] : k \in {"absent", "empty", "malformed"}}

Init ==
    /\ variant \in {"exporter", "src"}
    /\ \E in \in LoopInputs, term \in {Unset, Str("x")} :
          /\ env = [in.env EXCEPT !["TERM"] = term]
          /\ file = in.file
    /\ verbosity = 0
    /\ weather = {Usual}
    /\ InitRest

\* the runs in which the weather changes from one response to the next
WeatherLists ==
    {<<NamedLoc>>, <<NamedLoc, NamedLoc>>, <<NamelessLoc, NamedLoc>>, <<NamedLoc, NotMapping>>}
InitWeather ==
    /\ variant \in {"exporter", "src"}
    /\ \E term \in {Unset, Str("x")} : env = [NoEnv EXCEPT !["TERM"] = term]
    /\ \E l \in WeatherLists :
          file = MapFile(LoopKeys(PInt(3), Unset, Str("f")), TRUE, l)
    /\ verbosity = 0
    /\ weather = Conditions
    /\ InitRest

\* the runs of the start-up alone: every scalar with its variable set or
\* not and its key present or not, every count of -v up to MaxVerbosity
StartupEnvs ==
    {[n \in EnvNames |->
        CASE n = "TERM" -> term
          [] n = "INTERVAL" -> i
          [] n = "LOGLEVEL" -> l
          [] n = "LISTEN_PORT" -> p
          [] n = "API_KEY" -> k
          [] n = "UNITS" -> u] :
        term \in {Unset, Str("x")},
        i \in {Unset, Str("2"), Str("x")},
        l \in {Unset, PStr(WARNING)},
        p \in {Unset, Str("9")},
        k \in {Unset, PStr(<< >>), Str("e")},
        u \in {Unset, Str("K")}}
StartupFiles ==
    {MapFile([k \in ScalarKeys |->
                CASE k = "interval" -> i
                  [] k = "loglevel" -> l
                  [] k = "listen_port" -> p
                  [] k = "api_key" -> a
                  [] k = "units" -> u], hasLocs, locs) :
        i \in {Unset, PInt(3)},
        l \in {Unset, PStr(DEBUG)},
        p \in {Unset, PInt(8)},
        a \in {Unset, Str("f")},
        u \in {Unset, Str("F")},
        hasLocs \in BOOLEAN,
        locs \in {<< >>, <<NamedLoc>>}}
    \cup {OtherFile(k) : k \in {"absent", "empty", "malformed"}}

InitStartup ==
    /\ variant \in {"exporter", "src"}
    /\ env \in StartupEnvs
    /\ file \in {f \in StartupFiles : f.hasLocs \/ f.locs = << >>}
    /\ verbosity \in 0..MaxVerbosity
    /\ weather = {Usual}
    /\ InitRest

Next ==
    \/ ParseConfig
    \/ RegisterHandlers
    \/ ResolveConfig
    \/ CheckApiKey
    \/ CheckLocations
    \/ InitLogging
    \/ StartServer
    \/ LoopTop
    \/ ForDone
    \/ OrchestrationError
    \/ SkipNameless
    \/ PollLocation
    \/ FinallySleep
    \/ SleepReturn
    \/ Shutdown
    \/ SignalHandled
    \/ SigintDefault
    \/ SigtermDefault

Spec == Init /\ [][Next]_vars

NextStartup ==
    \/ ParseConfig
    \/ RegisterHandlers
    \/ ResolveConfig
    \/ CheckApiKey
    \/ CheckLocations
    \/ InitLogging
    \/ StartServer

SpecStartup == InitStartup /\ [][NextStartup]_vars

\* The steps of the poll loop.  The main thread runs on for as long as the
\* process lives, and every provider call and every sleep returns: a loop
\* step that stays possible is taken.
LoopStep ==
    \/ LoopTop
    \/ ForDone
    \/ OrchestrationError
    \/ SkipNameless
    \/ PollLocation
    \/ FinallySleep
    \/ SleepReturn

SpecWeather == InitWeather /\ [][Next]_vars

SpecLive == Init /\ [][Next]_vars /\ WF_vars(LoopStep)

(***************************************************************************)
(* Properties.                                                             *)
(***************************************************************************)
PerLocationFailures == {"provider_error", "response_error", "sink_error", "interrupted"}
Alive == exit = "alive"

\* C1: a failure inside the per-location try of location i neither ends the
\* for statement nor touches another location: when the for statement has
\* run to its end, every other named location j was polled once, and holds
\* this cycle's reading in all twelve gauges when its own pass succeeded,
\* whether j comes before or after i; a cycle is cut short only at an entry
\* that is no mapping (or by a signal, which forEnd tells apart).
C1_FailureIsolated ==
    /\ forEnd = "normal" =>
          \A i, j \in 1..NLocs :
             (i # j /\ outcome[i] \in PerLocationFailures /\ Named(j)) =>
                /\ outcome[j] # "none"
                /\ outcome[j] # "interrupted" => calls[j] = 1
                /\ outcome[j] = "ok" => Fresh(j) = Gauges
    /\ forEnd = "error" => (idx <= NLocs /\ ~cfg.locations[idx].map)

C1_Witness ==
    /\ forEnd = "normal"
    /\ NLocs = 2
    /\ cycles = 2
    /\ outcome[1] = "provider_error"
    /\ outcome[2] = "ok"
    /\ Fresh(2) = Gauges
    /\ Fresh(1) = {}

\* C2: a signal delivered with the handlers registered clears the running
\* flag; the flag, once cleared, stays cleared; no cycle starts after that.
C2_SignalStopsPolling ==
    /\ [][(signals' > signals /\ handlers) => ~running']_vars
    /\ [][~running => ~running']_vars
    /\ [][(~running /\ pc # "for") => pc' # "for"]_vars

\* C3: the flag is read at the while test only.  When it is cleared with
\* the loop at location k, the locations k..N are still polled (each named
\* one once, unless a signal interrupts its pass), no step of the cycle
\* leaves the loop because of the flag, and after the cycle no cycle starts
\* and no provider call is made.
C3_FlagReadOnlyAtTop ==
    /\ []((forEnd = "normal" /\ stoppedAt > 0) =>
            \A j \in stoppedAt..NLocs :
               (Named(j) /\ outcome[j] # "interrupted") => calls[j] = 1)
    /\ [][(~running /\ Alive /\ pc = "for" /\ signals' = signals) =>
             pc' \in {"for", "finally"}]_vars
    /\ [][(~running /\ pc # "for") => (pc' # "for" /\ calls' = calls)]_vars

C3_Witness ==
    /\ stoppedAt = 1
    /\ NLocs = 2
    /\ pc = "exited"
    /\ exit = "ok"
    /\ forEnd = "normal"
    /\ calls[1] = 1
    /\ calls[2] = 1
    /\ outcome[2] = "ok"

\* C4: once the flag is cleared the loop starts no sleep(interval) before
\* it stops (a sleep of length zero is let pass).
C4_NoSleepOnceStopped ==
    [][(~running /\ Alive) => (sleeps' = sleeps \/ slept' <= 0)]_vars

\* C5: when the while test is reached after a cycle, exactly one sleep was
\* made since the cycle began and its length was the resolved interval,
\* however the cycle ended.
C5_OneSleepPerCycle ==
    (pc = "while" /\ cycles > 0) => (sleeps = 1 /\ slept = cfg.interval)

C5_Witness ==
    /\ pc = "while"
    /\ cycles = 2
    /\ forEnd = "error"
    /\ outcome[1] = "sink_error"
    /\ sleeps = 1

\* C6: the loop is left only at the while test with the flag cleared (or by
\* the process being interrupted or terminated where no handler is
\* registered): no exception leaves it while the flag is set.
C6_LoopLeftOnlyByFlag ==
    [][(pc \in LoopPcs /\ pc' = "exited") =>
          \/ (pc = "while" /\ ~running /\ exit' = "ok")
          \/ (~handlers /\ exit' \in {"SIGTERM", "KeyboardInterrupt"})]_vars

\* C7: the loop is entered and the provider is called only with a truthy
\* api key and a non-empty locations list; a start-up that resolved a
\* configuration without one of them ends in ValueError before any cycle.
C7_LoopNeedsKeyAndLocations ==
    /\ (pc \in LoopPcs \/ cycles > 0 \/ \E j \in LocIdx : calls[j] > 0) =>
          (resolved /\ Truthy(cfg.api_key) /\ Len(cfg.locations) > 0)
    /\ (resolved /\ pc = "exited" /\ (~Truthy(cfg.api_key) \/ Len(cfg.locations) = 0)) =>
          (exit = "ValueError" /\ cycles = 0)

C7_Witness ==
    /\ pc = "exited"
    /\ resolved
    /\ Truthy(cfg.api_key)
    /\ Len(cfg.locations) = 0
    /\ exit = "ValueError"
    /\ cycles = 0

\* C8: a start-up that ends in a fatal error has not started the metrics
\* server.
FatalStartup == pc = "exited" /\ ~entered
C8_NoServerOnFatalStartup == FatalStartup => ~served

\* C9: a resolved interval that is zero or negative is rejected at start-up:
\* the server is not started, the loop is not entered and the value is
\* never given to sleep.
C9_NonPositiveIntervalRejected ==
    (resolved /\ cfg.interval <= 0) => (~served /\ pc \notin LoopPcs /\ sleeps = 0)

\* The value the inputs give a scalar: the environment variable when it is
\* set, else the file's key when present, else the default.
FileKey(key) == IF file.kind = "map" THEN file.keys[key] ELSE Unset
Precedence(name, key, default) ==
    IF env[name] # Unset THEN env[name]
    ELSE IF FileKey(key) # Unset THEN FileKey(key)
    ELSE default
FileLocations == IF file.kind = "map" /\ file.hasLocs THEN file.locs ELSE << >>

\* C10 as stated: every resolved scalar follows environment, file, default,
\* and the resolved locations are the file's, for every count of -v.
C10_ScalarPrecedence ==
    resolved =>
       /\ cfg.interval = PyInt(Precedence("INTERVAL", "interval", PInt(600))).v
       /\ cfg.loglevel = Precedence("LOGLEVEL", "loglevel", PStr(INFO))
       /\ cfg.listen_port = PyInt(Precedence("LISTEN_PORT", "listen_port", PInt(9126))).v
       /\ cfg.api_key = Precedence("API_KEY", "api_key", PNone)
       /\ cfg.units = Precedence("UNITS", "units", PStr(<<"C">>))
       /\ cfg.locations = FileLocations

\* C10 amended: as C10, except that in src/client.py with -v given the
\* resolved loglevel is the environment variable when set and else the name
\* of the verbosity's level, not the file's key or the default.
C10_ScalarPrecedenceAmended ==
    resolved =>
       /\ cfg.interval = PyInt(Precedence("INTERVAL", "interval", PInt(600))).v
       /\ (variant = "exporter" \/ verbosity = 0) =>
             cfg.loglevel = Precedence("LOGLEVEL", "loglevel", PStr(INFO))
       /\ (variant = "src" /\ verbosity > 0) =>
             cfg.loglevel = (IF env["LOGLEVEL"] # Unset THEN env["LOGLEVEL"]
                             ELSE VerbosityLevel(verbosity).v)
       /\ cfg.listen_port = PyInt(Precedence("LISTEN_PORT", "listen_port", PInt(9126))).v
       /\ cfg.api_key = Precedence("API_KEY", "api_key", PNone)
       /\ cfg.units = Precedence("UNITS", "units", PStr(<<"C">>))
       /\ cfg.locations = FileLocations

C10_Witness ==
    /\ resolved
    /\ variant = "src"
    /\ verbosity = 0
    /\ env["LOGLEVEL"] = Unset /\ file.keys["loglevel"] = PStr(DEBUG)
    /\ env["INTERVAL"] # Unset /\ file.keys["interval"] # Unset
    /\ env["UNITS"] = Unset /\ file.keys["units"] = Unset
    /\ cfg.loglevel = PStr(DEBUG)
    /\ cfg.interval = 2
    /\ cfg.units = PStr(<<"C">>)

\* The level the count of -v stands for: WARNING for 1, INFO for 2, DEBUG
\* for 3 and more.
VerbosityDerived(v) ==
    CASE v = 1 -> PStr(WARNING)
      [] v = 2 -> PStr(INFO)
      [] OTHER -> PStr(DEBUG)

\* C11: with one to three -v flags the level given to the logger by the
\* start-up is the one the count stands for, whatever the file's loglevel
\* and the LOGLEVEL variable say; -vv with LOGLEVEL=WARNING gives INFO.
C11_VerbosityOverrides ==
    (effLevel # Unset /\ verbosity \in 1..3) => effLevel = VerbosityDerived(verbosity)

\* C12: the mapping of the count of -v is total.  With no -v the level given
\* to the logger is the configured loglevel; with LOGLEVEL unset, every
\* count of one or more gives WARNING, INFO, DEBUG, DEBUG, ...; and no count
\* makes the resolution of the configuration raise.
C12_VerbosityMappingTotal ==
    /\ (effLevel # Unset /\ verbosity = 0) =>
          effLevel = Precedence("LOGLEVEL", "loglevel", PStr(INFO))
    /\ (effLevel # Unset /\ verbosity > 0 /\ env["LOGLEVEL"] = Unset) =>
          effLevel = VerbosityDerived(verbosity)
    /\ ~(/\ pc = "exited"
         /\ config.kind = "dict"
         /\ ~resolved
         /\ ResolvedInterval.err = "none"
         /\ ResolvedPort.err = "none")

C14_CoordinatesIffBoth ==
    \A j \in LocIdx :
       /\ calls[j] = 0 => lookup[j] = "none"
       /\ calls[j] > 0 =>
             /\ Named(j)
             /\ calls[j] = 1
             /\ lookup[j] \in {"coords", "city"}
             /\ lookup[j] = "coords" <=> (cfg.locations[j].lat /\ cfg.locations[j].lon)

C14_Witness ==
    /\ NLocs = 2
    /\ forEnd = "normal"
    /\ cfg.locations[1].lat /\ ~cfg.locations[1].lon
    /\ lookup[1] = "city"
    /\ cfg.locations[2].lat /\ cfg.locations[2].lon
    /\ lookup[2] = "coords"

RECURSIVE SumTo(_, _)
SumTo(f, n) == IF n = 0 THEN 0 ELSE f[n] + SumTo(f, n - 1)

\* C15: in a cycle over N locations every location gets at most one
\* provider call and at most one begun update of its gauges, an update only
\* after a call, so at most N calls and N updates are made, whatever fails
\* or is skipped.
C15_AtMostOnePerLocation ==
    /\ \A j \in LocIdx :
          /\ calls[j] <= 1
          /\ updates[j] <= calls[j]
          /\ j > NLocs => calls[j] = 0
    /\ SumTo(calls, MaxLocs) <= NLocs
    /\ SumTo(updates, MaxLocs) <= NLocs

C15_Witness ==
    /\ NLocs = 2
    /\ forEnd = "normal"
    /\ outcome[1] = "sink_error"
    /\ outcome[2] = "skipped"
    /\ calls[1] = 1 /\ updates[1] = 1
    /\ calls[2] = 0 /\ updates[2] = 0

\* C16: a location whose provider call raised or whose response lacks a
\* required field has none of its twelve gauges written in that cycle.
C16_FailedUpdateDiscarded ==
    \A j \in LocIdx :
       outcome[j] \in {"provider_error", "response_error"} => Fresh(j) = {}

\* C17: an entry without a name gets no provider call and no gauge write and
\* is not a failure; skipping it moves the for statement to the next entry
\* and ends neither the cycle nor the process; the named entries after it
\* are processed when the for statement runs to its end.
C17_NamelessSkipped ==
    /\ [](\A j \in 1..NLocs :
             (cfg.locations[j].map /\ ~cfg.locations[j].name) =>
                /\ calls[j] = 0
                /\ updates[j] = 0
                /\ Fresh(j) = {}
                /\ outcome[j] \in {"none", "skipped"})
    /\ [](forEnd = "normal" =>
             \A i, j \in 1..NLocs :
                (i < j /\ outcome[i] = "skipped" /\ Named(j)) => outcome[j] # "none")
    /\ [][(/\ pc = "for"
           /\ idx <= NLocs
           /\ outcome[idx] # "skipped"
           /\ outcome'[idx] = "skipped") =>
             (pc' = "for" /\ idx' = idx + 1 /\ exit' = "alive" /\ forEnd' = forEnd)]_vars

C17_Witness ==
    /\ NLocs = 2
    /\ forEnd = "normal"
    /\ outcome[1] = "skipped"
    /\ calls[1] = 0
    /\ Fresh(1) = {}
    /\ outcome[2] = "ok"
    /\ Fresh(2) = Gauges

\* C18: after a successful pass the gauges of temp, temp_min, temp_max and
\* feels_like hold converted values when units is not "K" and the raw ones
\* when it is; the other eight gauges hold the raw values for every units.
C18_ConversionOnTemperaturesOnly ==
    \A j \in LocIdx :
       outcome[j] = "ok" =>
          \A g \in Gauges :
             gauges[j][g] = IF g <= 4 /\ cfg.units # PStr(<<"K">>) THEN "conv" ELSE "raw"

C18_Witness ==
    /\ outcome[1] = "ok"
    /\ cfg.units = PStr(<<"C">>)
    /\ \A g \in 1..4 : gauges[1][g] = "conv"
    /\ \A g \in 5..NGauges : gauges[1][g] = "raw"

\* C19: once the running flag is false the process reaches its terminal
\* state, the poll loop left, and from there it takes no step back into a
\* cycle or a sleep.
C19_StoppedEventually ==
    /\ ~running ~> pc = "exited"
    /\ [][pc = "exited" => pc' = "exited"]_vars

C19_Witness ==
    /\ pc = "exited"
    /\ exit = "ok"
    /\ ~running
    /\ cycles = 2
    /\ forEnd = "normal"
    /\ sleeps = 1
    /\ stoppedAt = 2

\* C20: an exception raised in the for statement outside the per-location
\* try ends the cycle there and goes no further: the process lives, the
\* finally clause sleeps the interval, and the while statement, with the
\* flag still set, starts the next cycle at the first location.
C20_OrchestrationErrorCaught ==
    /\ [][(pc = "for" /\ forEnd' = "error") =>
             /\ pc' = "finally"
             /\ exit' = "alive"
             /\ running' = running
             /\ calls' = calls
             /\ gauges' = gauges]_vars
    /\ [][(/\ pc = "finally"
           /\ forEnd = "error"
           /\ cfg.interval >= 0
           /\ running' = running
           /\ signals' = signals) =>
             (pc' = "sleep" /\ sleeps' = sleeps + 1 /\ slept' = cfg.interval)]_vars
    /\ [][(/\ pc = "while"
           /\ forEnd = "error"
           /\ running /\ running'
           /\ signals' = signals) =>
             (pc' = "for" /\ idx' = 1 /\ exit' = "alive")]_vars

C20_Witness ==
    /\ pc = "for"
    /\ idx = 1
    /\ cycles = 2
    /\ running
    /\ NLocs = 2
    /\ cfg.locations[1].map /\ ~cfg.locations[2].map
    /\ slept = cfg.interval
    /\ ~handlers
    /\ signals = 0
    /\ stoppedAt = 0

\* C21: for every location at most one condition label of
\* owm_weather_condition holds 1, whatever descriptions the provider gave in
\* the cycles so far.
C21_OneConditionLabel ==
    \A j \in LocIdx : Cardinality(conditions[j]) <= 1

C23_PartialUpdateInOrder ==
    /\ GaugeNames =
          <<"temperature", "temperature_min", "temperature_max", "temperature_feel",
            "humidity", "pressure", "wind_direction", "wind_speed", "cloudiness",
            "sunrise_time", "sunset_time", "weather_condition">>
    /\ \A j \in LocIdx :
          /\ \E m \in 0..NGauges :
                /\ Fresh(j) = 1..m
                /\ \A g \in (m + 1)..NGauges : gauges[j][g] = "old"
          /\ outcome[j] = "sink_error" => Fresh(j) # Gauges
          /\ outcome[j] = "ok" => Fresh(j) = Gauges

C23_Witness ==
    /\ cycles = 2
    /\ outcome[1] = "sink_error"
    /\ GaugeNames[5] = "humidity"
    /\ Fresh(1) = 1..4
    /\ \A g \in 5..NGauges : gauges[1][g] = "old"

\* the first entry of the locations that is no mapping, 0 when all are
FirstNotMapping ==
    IF \E i \in 1..NLocs : ~cfg.locations[i].map
    THEN CHOOSE i \in 1..NLocs :
            /\ ~cfg.locations[i].map
            /\ \A h \in 1..(i - 1) : cfg.locations[h].map
    ELSE 0

\* C24: with an entry at index i that is no mapping, the entries after i get
\* no provider call and no gauge write in any cycle of the process; a cycle
\* that ends in the exception ends at i, with the entries before i
\* processed.
C24_LocationsAfterErrorNeverPolled ==
    (resolved /\ FirstNotMapping > 0) =>
       /\ \A j \in (FirstNotMapping + 1)..NLocs :
             /\ calls[j] = 0
             /\ updates[j] = 0
             /\ Fresh(j) = {}
             /\ outcome[j] = "none"
       /\ forEnd = "error" =>
             /\ idx = FirstNotMapping
             /\ \A h \in 1..(idx - 1) : outcome[h] # "none"

C24_Witness ==
    /\ NLocs = 2
    /\ ~cfg.locations[1].map
    /\ Named(2)
    /\ cycles = 2
    /\ pc = "finally"
    /\ forEnd = "error"
    /\ outcome[1] = "orchestration_error"
    /\ calls[2] = 0
    /\ Fresh(2) = {}

\* C25: a KeyboardInterrupt raised while the for statement runs is held by
\* the finally clause, which sleeps the whole interval before the exception
\* leaves the loop; raised while the loop sleeps, or with another signal
\* arriving, the process ends at once.  (An interval below zero makes the
\* sleep itself raise.)
C25_InterruptDelayedBySleep ==
    /\ [][(pending = "none" /\ pending' = "KeyboardInterrupt") =>
             (pc = "for" /\ pc' = "finally" /\ exit' = "alive" /\ sleeps' = 0)]_vars
    /\ [][(/\ pending = "KeyboardInterrupt"
           /\ pc = "finally"
           /\ cfg.interval >= 0
           /\ running' = running
           /\ signals' = signals) =>
             (pc' = "sleep" /\ sleeps' = 1 /\ slept' = cfg.interval /\ exit' = "alive")]_vars
    /\ [][(/\ pending = "KeyboardInterrupt"
           /\ pc # "exited"
           /\ pc' = "exited"
           /\ cfg.interval >= 0
           /\ signals' = signals) =>
             (pc = "sleep" /\ sleeps = 1 /\ exit' = "KeyboardInterrupt")]_vars
    /\ [][(pc = "sleep" /\ ~handlers /\ signals' # signals) =>
             (pc' = "exited" /\ sleeps' = sleeps)]_vars

C25_Witness ==
    /\ ~handlers
    /\ pc = "exited"
    /\ exit = "KeyboardInterrupt"
    /\ forEnd = "interrupt"
    /\ pending = "KeyboardInterrupt"
    /\ sleeps = 1
    /\ slept = 3

====
